---- MODULE Spec2Model ----
(***************************************************************************)
(* Model of the hex core of bohelper (src/src/hex.rs): HexByte, HexString  *)
(* and their operations.  Text is a sequence of Unicode code points; a     *)
(* Rust `str` is UTF-8, so lengths and slice indices count bytes.          *)
(***************************************************************************)
EXTENDS Integers, Sequences, FiniteSets, TLC

\* pc:         "start", "unit" (a HexByte is held), "seq" (a HexString is held),
\*             "searched", "done", "failed"
\* op, args:   the last call and its arguments (self_ is the receiver)
\* ret:        what the last call returned: Ok / Err / Panic, Some / None, a String
\* unit:       the HexByte held; hex_string: the HexString held
\* origin:     the constructor call that built the held value
\* retags:     as_endianness calls made on the held HexString
VARIABLES pc, op, args, ret, unit, hex_string, origin, retags

vars == <<pc, op, args, ret, unit, hex_string, origin, retags>>

(***************************************************************************)
(* Bounds of the exploration.                                              *)
(***************************************************************************)
MaxFragmentLen == 3
MaxTextLen == 3
MaxStrLen == 2
MaxUnits == 3
MaxNeedle == 2
MaxRetag == 1

\* usize is 64 bits wide: at most 16 significant hex digits.
UsizeHexDigits == 16

Endianness == {"Big", "Little"}

\* Code points offered to HexByte::from_hex_str: '/', '0', '9', ':', '@', 'A',
\* 'F', 'G', '`', 'a', 'f', 'g', U+00E9, U+0141, U+20AC.
FragmentChars == {47, 48, 57, 58, 64, 65, 70, 71, 96, 97, 102, 103, 233, 321, 8364}

\* Code points offered to HexString::from_hex_str: '0', '1', 'A', 'g', U+0141, U+20AC.
HexTextChars == {48, 49, 65, 103, 321, 8364}

\* Code points offered to HexString::from_str: '\n', '0', 'A', 'a', U+00E9, U+0141.
StrChars == {10, 48, 65, 97, 233, 321}

(***************************************************************************)
(* Generic helpers.                                                        *)
(***************************************************************************)
SeqsUpTo(S, n) == UNION {[1..k -> S] : k \in 0..n}

Reverse(s) == [i \in 1..Len(s) |-> s[Len(s) + 1 - i]]

Min(a, b) == IF a < b THEN a ELSE b

RECURSIVE Concat(_)
Concat(ss) == IF ss = <<>> THEN <<>> ELSE Head(ss) \o Concat(Tail(ss))

Ok(v) == [kind |-> "Ok", val |-> v]
Err(e) == [kind |-> "Err", err |-> e]
Panic == [kind |-> "Panic"]

(***************************************************************************)
(* str: UTF-8 byte lengths, char boundaries, byte-indexed slices.          *)
(***************************************************************************)
Utf8Len(c) == IF c < 128 THEN 1 ELSE IF c < 2048 THEN 2 ELSE IF c < 65536 THEN 3 ELSE 4

RECURSIVE ByteLen(_)
ByteLen(s) == IF s = <<>> THEN 0 ELSE Utf8Len(Head(s)) + ByteLen(Tail(s))

\* Byte offset at which the k-th char (1-based) of s starts.
CharStart(s, k) == ByteLen(SubSeq(s, 1, k - 1))

IsCharBoundary(s, b) == \E k \in 1..(Len(s) + 1) : CharStart(s, k) = b

\* &s[lo..=hi]: the bytes lo..hi inclusive; panics when hi + 1 is past the end or
\* either end is not a char boundary.
StrSliceInclusive(s, lo, hi) ==
    IF lo > hi + 1 \/ hi + 1 > ByteLen(s) \/ ~IsCharBoundary(s, lo) \/ ~IsCharBoundary(s, hi + 1)
    THEN Panic
    ELSE LET first == CHOOSE k \in 1..(Len(s) + 1) : CharStart(s, k) = lo
             next == CHOOSE k \in 1..(Len(s) + 1) : CharStart(s, k) = hi + 1
         IN Ok(SubSeq(s, first, next - 1))

\* char::to_lowercase on the code points of the alphabets above.
ToLowerChar(c) == IF c \in 65..90 THEN c + 32 ELSE IF c = 321 THEN 322 ELSE c

to_lowercase(s) == [i \in 1..Len(s) |-> ToLowerChar(s[i])]

\* Mutation: the padding goes to the right of the fragment.
PadLeft2_padsRight(s) == IF Len(s) >= 2 THEN s ELSE s \o [i \in 1..(2 - Len(s)) |-> 48]

\* format!("{:0>2}", s): left-pad with '0' to two chars, counted in chars.
PadLeft2(s) == IF Len(s) >= 2 THEN s ELSE [i \in 1..(2 - Len(s)) |-> 48] \o s

\* `c as u8` keeps the low 8 bits of the code point.
AsU8(c) == c % 256

\* The range test of from_hex_str on one byte value.
IsHexCode(b) == (b >= 48 /\ b <= 57) \/ (b >= 65 /\ b <= 70) \/ (b >= 97 /\ b <= 102)

\* format!("{:x}", b) for a u8.
LowerHexDigit(n) == IF n < 10 THEN 48 + n ELSE 87 + n

FormatLowerHex(b) ==
    IF b < 16 THEN <<LowerHexDigit(b)>>
    ELSE <<LowerHexDigit(b \div 16), LowerHexDigit(b % 16)>>

(***************************************************************************)
(* HexByte                                                                 *)
(***************************************************************************)
HexByte_from_hex_str(hex_byte) ==
    IF ByteLen(hex_byte) > 2
    THEN Err([reason |-> "length", len |-> ByteLen(hex_byte)])
    ELSE LET padded == PadLeft2(hex_byte)
             bad == {i \in 1..Len(padded) : ~IsHexCode(AsU8(padded[i]))}
         IN IF bad # {}
            THEN Err([reason |-> "char", c |-> padded[CHOOSE i \in bad : \A j \in bad : i <= j]])
            ELSE Ok([contents |-> to_lowercase(padded)])

to_string(hb) == hb.contents

\* From<char>: from_hex_str(format!("{:x}", c as u8)).unwrap()
HexByte_from(c) ==
    LET r == HexByte_from_hex_str(FormatLowerHex(AsU8(c)))
    IN IF r.kind = "Ok" THEN r ELSE Panic

(***************************************************************************)
(* HexString: [hex_bytes, endianness]                                      *)
(***************************************************************************)
\* Mutation: the units are never reversed.
HexString_from_hex_bytes_noReverse(hex_bytes, source_endianness, target_endianness) ==
    [hex_bytes |-> hex_bytes, endianness |-> target_endianness]

HexString_from_hex_bytes(hex_bytes, source_endianness, target_endianness) ==
    [hex_bytes |-> IF source_endianness # target_endianness
                   THEN Reverse(hex_bytes) ELSE hex_bytes,
     endianness |-> target_endianness]

\* The `for i in 0..hex_bytes.capacity()` loop of from_hex_str; `?` returns the
\* first fragment error, a slice off a char boundary panics.
RECURSIVE from_hex_str_loop(_, _, _, _)
from_hex_str_loop(string_of_hex_chars, i, capacity, hex_bytes) ==
    IF i >= capacity THEN Ok(hex_bytes)
    ELSE LET start_index == i * 2
             end_index == i * 2 + 1
             fragment == StrSliceInclusive(string_of_hex_chars, start_index, end_index)
         IN IF fragment.kind = "Panic" THEN Panic
            ELSE LET hex_byte == HexByte_from_hex_str(fragment.val)
                 IN IF hex_byte.kind = "Err" THEN hex_byte
                    ELSE from_hex_str_loop(string_of_hex_chars, i + 1, capacity,
                                           Append(hex_bytes, hex_byte.val))

\* Mutation: the '0' is appended instead of prefixed.
PadOdd_suffix(s) == IF ByteLen(s) % 2 # 0 THEN s \o <<48>> ELSE s

\* Prefix '0' when s.len() (bytes) is odd.
PadOdd(s) == IF ByteLen(s) % 2 # 0 THEN <<48>> \o s ELSE s

HexString_from_hex_str(s, source_endianness, target_endianness) ==
    LET string_of_hex_chars == PadOdd(s)
        capacity == ByteLen(string_of_hex_chars) \div 2
        hex_bytes == from_hex_str_loop(string_of_hex_chars, 0, capacity, <<>>)
    IN IF hex_bytes.kind = "Ok"
       THEN Ok(HexString_from_hex_bytes(hex_bytes.val, source_endianness, target_endianness))
       ELSE hex_bytes

\* The `for c in s.chars()` loop of from_str.
RECURSIVE from_str_loop(_, _)
from_str_loop(s, hex_bytes) ==
    IF s = <<>> THEN Ok(hex_bytes)
    ELSE LET hex_byte == HexByte_from(Head(s))
         IN IF hex_byte.kind = "Panic" THEN Panic
            ELSE from_str_loop(Tail(s), Append(hex_bytes, hex_byte.val))

HexString_from_str(s, source_endianness, target_endianness) ==
    LET hex_bytes == from_str_loop(s, <<>>)
    IN IF hex_bytes.kind = "Ok"
       THEN Ok(HexString_from_hex_bytes(hex_bytes.val, source_endianness, target_endianness))
       ELSE hex_bytes

\* Mutation: the tag is changed but the units are left in place.
as_endianness_noReverse(self_, endianness) ==
    [hex_bytes |-> self_.hex_bytes, endianness |-> endianness]

as_endianness(self_, endianness) ==
    [hex_bytes |-> IF self_.endianness # endianness
                   THEN Reverse(self_.hex_bytes) ELSE self_.hex_bytes,
     endianness |-> endianness]

\* Mutation: the empty needle is not rejected.
NeedleRejected_ignoresEmpty(self_, needle) ==
    Len(self_.hex_bytes) < Len(needle.hex_bytes)

\* The early return of get_offsets.
NeedleRejected(self_, needle) ==
    Len(needle.hex_bytes) = 0 \/ Len(self_.hex_bytes) < Len(needle.hex_bytes)

\* Mutation: the needle is compared as it came.
NeedleAligned_noRetag(self_, needle) == needle

\* The needle as compared: re-tagged when its endianness differs.
NeedleAligned(self_, needle) ==
    IF needle.endianness # self_.endianness
    THEN as_endianness(needle, self_.endianness) ELSE needle

\* Mutation: after the first iteration the FIFO takes the unit at i, not the
\* unit at i + n - 1.
FifoUpdate_pushesCurrent(hay, n, i, fifo) ==
    IF i = 0
    THEN IF n > Len(hay) THEN Panic ELSE Ok([k \in 1..n |-> hay[k]])
    ELSE IF i + n > Len(hay) THEN Panic
         ELSE Ok(Append(IF fifo = <<>> THEN <<>> ELSE Tail(fifo), hay[i + 1]))

\* The FIFO after the update of iteration i (0-based); Vec::get(k).unwrap()
\* panics when k is out of bounds.
FifoUpdate(hay, n, i, fifo) ==
    IF i = 0
    THEN IF n > Len(hay) THEN Panic ELSE Ok([k \in 1..n |-> hay[k]])
    ELSE IF i + n > Len(hay) THEN Panic
         ELSE Ok(Append(IF fifo = <<>> THEN <<>> ELSE Tail(fifo), hay[i + n]))

\* The zip comparison of the FIFO with the needle.
WindowMatches(fifo, ndl) ==
    \A k \in 1..Min(Len(fifo), Len(ndl)) : fifo[k] = ndl[k]

\* The `for i in 0..self.hex_bytes.len()` loop of get_offsets.
RECURSIVE get_offsets_loop(_, _, _, _, _)
get_offsets_loop(hay, ndl, i, fifo, matches) ==
    IF i >= Len(hay) THEN Ok(matches)
    ELSE IF i + Len(ndl) > Len(hay) THEN Ok(matches)
    ELSE LET current_hex_bytes == FifoUpdate(hay, Len(ndl), i, fifo)
         IN IF current_hex_bytes.kind = "Panic" THEN Panic
            ELSE get_offsets_loop(hay, ndl, i + 1, current_hex_bytes.val,
                                  IF WindowMatches(current_hex_bytes.val, ndl)
                                  THEN Append(matches, i) ELSE matches)

get_offsets(self_, needle) ==
    IF NeedleRejected(self_, needle) THEN Ok(<<>>)
    ELSE get_offsets_loop(self_.hex_bytes, NeedleAligned(self_, needle).hex_bytes,
                          0, <<>>, <<>>)

as_hex_string(self_, endianness) ==
    LET hs == IF endianness = self_.endianness THEN self_
              ELSE as_endianness(self_, endianness)
    IN Concat([i \in 1..Len(hs.hex_bytes) |-> hs.hex_bytes[i].contents])

\* char::to_digit(16); -1 for a char that is no hex digit.
ToDigit16(c) ==
    IF c >= 48 /\ c <= 57 THEN c - 48
    ELSE IF c >= 97 /\ c <= 102 THEN c - 87
    ELSE IF c >= 65 /\ c <= 70 THEN c - 55
    ELSE -1

\* The accumulation of usize::from_str_radix(_, 16).  The value is kept as its
\* significant hex digits (<<>> is zero): acc * 16 + d overflows usize exactly
\* when it needs more than UsizeHexDigits digits.
RECURSIVE from_str_radix_loop(_, _)
from_str_radix_loop(digits, acc) ==
    IF digits = <<>> THEN Ok(acc)
    ELSE LET d == ToDigit16(Head(digits))
             next == IF acc = <<>> /\ d = 0 THEN <<>> ELSE Append(acc, d)
         IN IF d < 0 THEN Err("InvalidDigit")
            ELSE IF Len(next) > UsizeHexDigits THEN Err("PosOverflow")
            ELSE from_str_radix_loop(Tail(digits), next)

usize_from_str_radix_16(src) ==
    IF src = <<>> THEN Err("Empty")
    ELSE IF src = <<43>> \/ src = <<45>> THEN Err("InvalidDigit")
    ELSE from_str_radix_loop(IF Head(src) = 43 THEN Tail(src) ELSE src, <<>>)

as_usize(self_) ==
    LET parsed == usize_from_str_radix_16(as_hex_string(self_, "Big"))
    IN IF parsed.kind = "Ok" THEN [kind |-> "Some", val |-> parsed.val]
       ELSE [kind |-> "None"]

(***************************************************************************)
(* Inputs.                                                                 *)
(***************************************************************************)
\* Hex text written as its nibbles.
HexText(nibbles) == [i \in 1..Len(nibbles) |-> LowerHexDigit(nibbles[i])]

\* The hex texts of the repository's tests: "00112233", "0011223344",
\* "00112233440011223344", "a000ff907b", "fffffffffffffffff", "Aa0Aa1Aa2".
TestHexTexts ==
    { HexText(<<0, 0, 1, 1, 2, 2, 3, 3>>),
      HexText(<<0, 0, 1, 1, 2, 2, 3, 3, 4, 4>>),
      HexText(<<0, 0, 1, 1, 2, 2, 3, 3, 4, 4, 0, 0, 1, 1, 2, 2, 3, 3, 4, 4>>),
      HexText(<<10, 0, 0, 0, 15, 15, 9, 0, 7, 11>>),
      HexText([i \in 1..(UsizeHexDigits + 1) |-> 15]),
      <<65, 97, 48, 65, 97, 49, 65, 97, 50>> }

\* The text of the repository's from_str tests: "Aa0Aa1Aa2".
TestStrs == { <<65, 97, 48, 65, 97, 49, 65, 97, 50>> }

\* The units "22" and "33", as HexByte::from_hex_str builds them.
SearchUnits == { HexByte_from_hex_str(<<c, c>>).val : c \in {50, 51} }

NoUnit == [contents |-> <<>>]
NoSeq == [hex_bytes |-> <<>>, endianness |-> "Big"]
NoCall == [op |-> "none"]

Init ==
    /\ pc = "start"
    /\ op = "none"
    /\ args = [none |-> TRUE]
    /\ ret = [kind |-> "none"]
    /\ unit = NoUnit
    /\ hex_string = NoSeq
    /\ origin = NoCall
    /\ retags = 0

\* HexByte::from_hex_str(fragment)
CallHexByteFromHexStr ==
    /\ pc = "start"
    /\ \E f \in SeqsUpTo(FragmentChars, MaxFragmentLen) :
        LET r == HexByte_from_hex_str(f)
        IN /\ op' = "HexByte::from_hex_str"
           /\ args' = [hex_byte |-> f]
           /\ ret' = r
           /\ unit' = IF r.kind = "Ok" THEN r.val ELSE NoUnit
           /\ pc' = IF r.kind = "Ok" THEN "unit" ELSE "failed"
           /\ origin' = [op |-> "HexByte::from_hex_str", hex_byte |-> f]
    /\ UNCHANGED <<hex_string, retags>>

\* HexByte::from(c)
CallHexByteFrom ==
    /\ pc = "start"
    /\ \E c \in FragmentChars \cup StrChars :
        LET r == HexByte_from(c)
        IN /\ op' = "HexByte::from"
           /\ args' = [c |-> c]
           /\ ret' = r
           /\ unit' = IF r.kind = "Ok" THEN r.val ELSE NoUnit
           /\ pc' = IF r.kind = "Ok" THEN "unit" ELSE "failed"
           /\ origin' = [op |-> "HexByte::from", c |-> c]
    /\ UNCHANGED <<hex_string, retags>>

\* hex_byte.to_string()
CallToString ==
    /\ pc = "unit"
    /\ op' = "to_string"
    /\ args' = [hb |-> unit]
    /\ ret' = [kind |-> "String", val |-> to_string(unit)]
    /\ pc' = "done"
    /\ UNCHANGED <<unit, hex_string, origin, retags>>

\* HexString::from_hex_bytes(hex_bytes, source, target)
CallFromHexBytes ==
    /\ pc = "start"
    /\ \E v \in SeqsUpTo(SearchUnits, MaxUnits), se \in Endianness, te \in Endianness :
        LET r == HexString_from_hex_bytes(v, se, te)
        IN /\ op' = "from_hex_bytes"
           /\ args' = [hex_bytes |-> v, source_endianness |-> se, target_endianness |-> te]
           /\ ret' = Ok(r)
           /\ hex_string' = r
           /\ pc' = "seq"
           /\ origin' = [op |-> "from_hex_bytes", hex_bytes |-> v,
                         source_endianness |-> se, target_endianness |-> te]
    /\ UNCHANGED <<unit, retags>>

\* HexString::from_hex_str(s, source, target)
CallFromHexStr ==
    /\ pc = "start"
    /\ \E s \in SeqsUpTo(HexTextChars, MaxTextLen) \cup TestHexTexts,
          se \in Endianness, te \in Endianness :
        LET r == HexString_from_hex_str(s, se, te)
        IN /\ op' = "from_hex_str"
           /\ args' = [s |-> s, source_endianness |-> se, target_endianness |-> te]
           /\ ret' = r
           /\ hex_string' = IF r.kind = "Ok" THEN r.val ELSE NoSeq
           /\ pc' = IF r.kind = "Ok" THEN "seq" ELSE "failed"
           /\ origin' = [op |-> "from_hex_str", s |-> s,
                         source_endianness |-> se, target_endianness |-> te]
    /\ UNCHANGED <<unit, retags>>

\* HexString::from_str(s, source, target)
CallFromStr ==
    /\ pc = "start"
    /\ \E s \in SeqsUpTo(StrChars, MaxStrLen) \cup TestStrs,
          se \in Endianness, te \in Endianness :
        LET r == HexString_from_str(s, se, te)
        IN /\ op' = "from_str"
           /\ args' = [s |-> s, source_endianness |-> se, target_endianness |-> te]
           /\ ret' = r
           /\ hex_string' = IF r.kind = "Ok" THEN r.val ELSE NoSeq
           /\ pc' = IF r.kind = "Ok" THEN "seq" ELSE "failed"
           /\ origin' = [op |-> "from_str", s |-> s,
                         source_endianness |-> se, target_endianness |-> te]
    /\ UNCHANGED <<unit, retags>>

\* hex_string = hex_string.as_endianness(endianness)
CallAsEndianness ==
    /\ pc = "seq"
    /\ retags < MaxRetag
    /\ \E e \in Endianness :
        LET r == as_endianness(hex_string, e)
        IN /\ op' = "as_endianness"
           /\ args' = [self_ |-> hex_string, endianness |-> e]
           /\ ret' = r
           /\ hex_string' = r
    /\ retags' = retags + 1
    /\ UNCHANGED <<pc, unit, origin>>

\* hex_string.as_hex_string(endianness), which consumes the sequence
CallAsHexString ==
    /\ pc = "seq"
    /\ \E e \in Endianness :
        /\ op' = "as_hex_string"
        /\ args' = [self_ |-> hex_string, endianness |-> e]
        /\ ret' = [kind |-> "String", val |-> as_hex_string(hex_string, e)]
    /\ hex_string' = NoSeq
    /\ pc' = "done"
    /\ UNCHANGED <<unit, origin, retags>>

\* hex_string.as_usize(), which consumes the sequence
CallAsUsize ==
    /\ pc = "seq"
    /\ op' = "as_usize"
    /\ args' = [self_ |-> hex_string]
    /\ ret' = as_usize(hex_string)
    /\ hex_string' = NoSeq
    /\ pc' = "done"
    /\ UNCHANGED <<unit, origin, retags>>

\* hex_string.get_offsets(needle), the needle built by from_hex_bytes
CallGetOffsets ==
    /\ pc = "seq"
    /\ \E w \in SeqsUpTo(SearchUnits, MaxNeedle), se \in Endianness, te \in Endianness :
        LET needle == HexString_from_hex_bytes(w, se, te)
        IN /\ op' = "get_offsets"
           /\ args' = [self_ |-> hex_string, needle |-> needle, units |-> w,
                       source_endianness |-> se, target_endianness |-> te]
           /\ ret' = get_offsets(hex_string, needle)
    /\ pc' = "searched"
    /\ UNCHANGED <<unit, hex_string, origin, retags>>

Next ==
    \/ CallHexByteFromHexStr
    \/ CallHexByteFrom
    \/ CallToString
    \/ CallFromHexBytes
    \/ CallFromHexStr
    \/ CallFromStr
    \/ CallAsEndianness
    \/ CallAsHexString
    \/ CallAsUsize
    \/ CallGetOffsets

Spec == Init /\ [][Next]_vars

(***************************************************************************)
(* Properties.  The expected values below are written from the statements, *)
(* independently of the operators above.                                   *)
(***************************************************************************)
IsHexDigitChar(c) == c \in (48..57) \cup (65..70) \cup (97..102)

IsHexText(s) == \A i \in 1..Len(s) : IsHexDigitChar(s[i])

LowerHexChar(c) == IF c \in 65..70 THEN c + 32 ELSE c

LowerHexText(s) == [i \in 1..Len(s) |-> LowerHexChar(s[i])]

\* s left-padded with '0' to an even number of chars.
EvenPadded(s) == IF Len(s) % 2 = 1 THEN <<48>> \o s ELSE s

Reversed(a, b) == Len(a) = Len(b) /\ \A i \in 1..Len(a) : a[i] = b[Len(b) + 1 - i]

Ascending(q) == \A j \in 1..(Len(q) - 1) : q[j] < q[j + 1]

Range(q) == {q[j] : j \in 1..Len(q)}

Other(e) == IF e = "Big" THEN "Little" ELSE "Big"

\* The offsets at which the units n occur in the units h.
Occurrences(h, n) ==
    {i \in 0..(Len(h) - Len(n)) : \A k \in 1..Len(n) : h[i + k] = n[k]}

\* C1: for a non-empty needle no longer than the haystack, get_offsets returns
\* exactly the offsets at which the needle (re-tagged to the haystack's
\* endianness) occurs, strictly ascending, overlapping matches included.
C1_AllOffsets ==
    (pc = "searched" /\ Len(args.needle.hex_bytes) > 0
        /\ Len(args.needle.hex_bytes) <= Len(args.self_.hex_bytes)) =>
        LET h == args.self_.hex_bytes
            n == IF args.needle.endianness = args.self_.endianness
                 THEN args.needle.hex_bytes
                 ELSE [i \in 1..Len(args.needle.hex_bytes) |->
                          args.needle.hex_bytes[Len(args.needle.hex_bytes) + 1 - i]]
        IN /\ ret.kind = "Ok"
           /\ Range(ret.val) = Occurrences(h, n)
           /\ Ascending(ret.val)

\* A search that reported two overlapping matches of a two-unit needle.
C1_Witness ==
    /\ pc = "searched"
    /\ ret.kind = "Ok"
    /\ Len(args.needle.hex_bytes) = 2
    /\ Len(ret.val) >= 2
    /\ ret.val[2] - ret.val[1] < Len(args.needle.hex_bytes)

\* C2: get_offsets returns the empty list, without failing, when the needle
\* is empty or longer than the haystack, whatever the endianness tags.
C2_EmptyOrTooLong ==
    (pc = "searched"
        /\ (Len(args.needle.hex_bytes) = 0
            \/ Len(args.needle.hex_bytes) > Len(args.self_.hex_bytes))) =>
        ret = Ok(<<>>)

\* A search with a needle longer than a non-empty haystack of the other tag.
C2_Witness ==
    /\ pc = "searched"
    /\ Len(args.self_.hex_bytes) >= 1
    /\ Len(args.needle.hex_bytes) > Len(args.self_.hex_bytes)
    /\ args.needle.endianness # args.self_.endianness
    /\ ret = Ok(<<>>)

\* C3: a needle built from reversed units declared in the endianness opposite
\* to the haystack's (normalized at construction, or re-tagged by the search)
\* finds the same offsets as the needle built from the units declared in the
\* haystack's endianness.
C3_EndiannessAware ==
    (pc = "searched" /\ args.source_endianness # args.self_.endianness) =>
        LET e == args.self_.endianness
            u == [i \in 1..Len(args.units) |-> args.units[Len(args.units) + 1 - i]]
        IN ret = get_offsets(args.self_, HexString_from_hex_bytes(u, e, e))

\* A search that matched with a two-unit, non-palindromic needle still tagged
\* with the opposite endianness.
C3_Witness ==
    /\ pc = "searched"
    /\ args.source_endianness # args.self_.endianness
    /\ args.needle.endianness # args.self_.endianness
    /\ Len(args.units) = 2
    /\ args.units[1] # args.units[2]
    /\ ret.kind = "Ok"
    /\ Len(ret.val) >= 1

\* C4: HexByte::from_hex_str fails for every fragment longer than 2 chars or
\* holding a char outside 0-9, A-F, a-f, so that no constructed unit holds an
\* invalid hex digit.
C4_InvalidFragmentFails ==
    /\ (op = "HexByte::from_hex_str"
          /\ (Len(args.hex_byte) > 2 \/ ~IsHexText(args.hex_byte))) => ret.kind = "Err"
    /\ pc = "unit" => IsHexText(unit.contents)

\* C5: for a valid fragment of 0 to 2 chars, HexByte::from_hex_str succeeds and
\* to_string gives the fragment zero-left-padded to 2 chars and lowercased.
C5_CanonicalUnit ==
    /\ (op = "HexByte::from_hex_str" /\ Len(args.hex_byte) <= 2 /\ IsHexText(args.hex_byte)) =>
          ret.kind = "Ok"
    /\ (op = "to_string" /\ origin.op = "HexByte::from_hex_str"
          /\ Len(origin.hex_byte) <= 2 /\ IsHexText(origin.hex_byte)) =>
          /\ Len(ret.val) = 2
          /\ ret.val = LowerHexText(IF Len(origin.hex_byte) = 0 THEN <<48, 48>>
                                    ELSE IF Len(origin.hex_byte) = 1 THEN <<48>> \o origin.hex_byte
                                    ELSE origin.hex_byte)

\* to_string of the unit built from "F" gave "0f".
C5_Witness ==
    /\ op = "to_string"
    /\ origin.op = "HexByte::from_hex_str"
    /\ origin.hex_byte = <<70>>
    /\ ret.val = <<48, 102>>

\* A sequence rendered right after from_hex_str(s, E, E), in endianness E.
RoundTrip ==
    /\ op = "as_hex_string"
    /\ origin.op = "from_hex_str"
    /\ retags = 0
    /\ origin.source_endianness = origin.target_endianness
    /\ args.endianness = origin.target_endianness
    /\ IsHexText(origin.s)

\* C6 as stated: from_hex_str(s, E, E) then as_hex_string(E) reproduces s
\* itself when s has even length, and '0' followed by s when it is odd.
C6_RoundTripVerbatim == RoundTrip => ret.val = EvenPadded(origin.s)

\* C6, amended: from_hex_str(s, E, E) then as_hex_string(E) gives the
\* lowercased s, left-padded with one '0' when s has odd length.
C6_RoundTripLowercased == RoundTrip => ret.val = LowerHexText(EvenPadded(origin.s))

\* The round trip of "A01", which gave "0a01".
C6_Witness ==
    /\ RoundTrip
    /\ origin.s = <<65, 48, 49>>
    /\ ret.val = <<48, 97, 48, 49>>

\* C7: as_endianness to the other tag reverses the units and sets the tag,
\* re-tagging the result back restores the original sequence, and
\* as_endianness to the current tag changes nothing.
C7_RetagInverse ==
    op = "as_endianness" =>
        /\ args.endianness # args.self_.endianness =>
              /\ Reversed(ret.hex_bytes, args.self_.hex_bytes)
              /\ ret.endianness = args.endianness
              /\ as_endianness(ret, args.self_.endianness) = args.self_
        /\ args.endianness = args.self_.endianness => ret = args.self_

\* A re-tag to the other endianness that changed the order of the units.
C7_Witness ==
    /\ op = "as_endianness"
    /\ args.endianness # args.self_.endianness
    /\ Len(args.self_.hex_bytes) >= 2
    /\ ret.hex_bytes # args.self_.hex_bytes
    /\ ret.endianness = Other(args.self_.endianness)

\* The chars of the sequence h in big-endian order, leading '0's dropped.
RECURSIVE StripZeros(_)
StripZeros(s) == IF s # <<>> /\ Head(s) = 48 THEN StripZeros(Tail(s)) ELSE s

BigEndianChars(h) ==
    LET u == IF h.endianness = "Big" THEN h.hex_bytes
             ELSE [i \in 1..Len(h.hex_bytes) |-> h.hex_bytes[Len(h.hex_bytes) + 1 - i]]
    IN Concat([i \in 1..Len(u) |-> u[i].contents])

\* C8: as_usize returns Some(v), v the value of the units read in big-endian
\* order, whenever v fits the native width, and None only when it does not.
C8_NoneOnlyOnOverflow ==
    op = "as_usize" =>
        LET sig == StripZeros(BigEndianChars(args.self_))
        IN /\ ret.kind = "None" => Len(sig) > UsizeHexDigits
           /\ Len(sig) <= UsizeHexDigits =>
                 /\ ret.kind = "Some"
                 /\ Len(ret.val) = Len(sig)
                 /\ \A i \in 1..Len(sig) : LowerHexDigit(ret.val[i]) = sig[i]

\* The k-th two-char fragment of the even-padded text s.
Fragment(s, k) == <<EvenPadded(s)[2 * k - 1], EvenPadded(s)[2 * k]>>

InvalidFragments(s) ==
    {k \in 1..(Len(EvenPadded(s)) \div 2) : HexByte_from_hex_str(Fragment(s, k)).kind = "Err"}

\* C9: HexString::from_hex_str has exactly two outcomes: the complete
\* sequence, one unit per two-char fragment of the even-padded text, or the
\* error that fragment validation gives for the first invalid fragment; it
\* never returns a partial sequence and never ends in another way.
C9_AllOrNothing ==
    op = "from_hex_str" =>
        LET s == args.s
            bad == InvalidFragments(s)
        IN \/ /\ ret.kind = "Ok"
              /\ Len(ret.val.hex_bytes) = Len(EvenPadded(s)) \div 2
           \/ /\ ret.kind = "Err"
              /\ bad # {}
              /\ ret = HexByte_from_hex_str(Fragment(s, CHOOSE k \in bad : \A j \in bad : k <= j))

\* The constructor of the last call, applied to the same input with the
\* target endianness equal to the source.
SameEndianCall ==
    IF op = "from_hex_bytes"
    THEN Ok(HexString_from_hex_bytes(args.hex_bytes, args.source_endianness, args.source_endianness))
    ELSE IF op = "from_hex_str"
    THEN HexString_from_hex_str(args.s, args.source_endianness, args.source_endianness)
    ELSE HexString_from_str(args.s, args.source_endianness, args.source_endianness)

\* The units of the input of the last constructor call, left to right.
InputUnits ==
    IF op = "from_hex_bytes" THEN args.hex_bytes
    ELSE IF op = "from_hex_str"
    THEN [k \in 1..(ByteLen(PadOdd(args.s)) \div 2) |->
             HexByte_from_hex_str(
                 StrSliceInclusive(PadOdd(args.s), 2 * (k - 1), 2 * k - 1).val).val]
    ELSE [k \in 1..Len(args.s) |-> HexByte_from(args.s[k]).val]

\* C10: a constructor called with (x, S, T) tags the sequence T; with S # T
\* its units are those of the call (x, S, S) reversed, with S = T they keep
\* the left-to-right order of the input.
C10_NormalizedAtCreation ==
    op \in {"from_hex_bytes", "from_hex_str", "from_str"} =>
        /\ ret.kind = SameEndianCall.kind
        /\ ret.kind = "Ok" =>
              /\ ret.val.endianness = args.target_endianness
              /\ args.source_endianness # args.target_endianness =>
                    Reversed(ret.val.hex_bytes, SameEndianCall.val.hex_bytes)
              /\ args.source_endianness = args.target_endianness =>
                    ret.val.hex_bytes = InputUnits

\* from_str("Aa0Aa1Aa2", Big, Little): the unit of '2' came first.
C10_Witness ==
    /\ op = "from_str"
    /\ args.s = <<65, 97, 48, 65, 97, 49, 65, 97, 50>>
    /\ args.source_endianness = "Big"
    /\ args.target_endianness = "Little"
    /\ ret.kind = "Ok"
    /\ ret.val.hex_bytes[1].contents = <<51, 50>>
    /\ ret.val.hex_bytes[9].contents = <<52, 49>>

====
